---------------------------- MODULE Spec2Model ----------------------------
(***************************************************************************)
(* Model of the dashboard latency simulator (dashboard_simulator.py) and   *)
(* the synthetic clinical data generator (synthetic_data_generator.py).    *)
(*                                                                         *)
(* Specifications:                                                         *)
(*   Spec            simulate_concurrent_dashboards: the controller thread, *)
(*                   the worker sessions of the pool and execute_query     *)
(*   SpecPercentile  the static method percentile on bounded samples       *)
(*   SpecReport      generate_performance_report on bounded collections    *)
(*   SpecRepeat      generate_patients in two runs of the generator, each  *)
(*                   a fresh process seeded by the module-level seeding    *)
(*   SpecLoad        one call of simulate_single_dashboard_load            *)
(*   SpecGenerator   generate_patients, generate_encounters and            *)
(*                   generate_lab_results called on one generator in any   *)
(*                   order                                                 *)
(*   SpecGenerateAll generate_all: the three of them, once each, in order  *)
(*   SpecLabValue    the value and the abnormal flag of one lab result     *)
(*   SpecFair        Spec under fair scheduling of its threads             *)
(*   SpecFull        run_full_simulation on a fresh simulator              *)
(***************************************************************************)
EXTENDS Integers, Sequences, FiniteSets, TLC

VARIABLES
    mode,             \* which part of the program the behaviour exercises
    \* ---- DashboardSimulator.simulate_concurrent_dashboards ----
    num_concurrent,   \* parameter: worker width W
    num_iterations,   \* parameter: iteration count I
    num_rows,         \* rows held by CLINICAL_DB.CURATED.PATIENTS (environment)
    connection,       \* self.connection: "none" or "open"
    ctl_pc,           \* position of the controller (calling) thread
    patient_ids,      \* local patient_ids
    iteration,        \* loop variable of the for over range(num_iterations)
    sess,             \* one record per submitted future / worker session
    collected,        \* futures as_completed has already yielded
    cur,              \* the session whose result the controller holds
    all_results,      \* local all_results
    query_results,    \* self.query_results, the shared result collection
    faults,           \* failures the execution collaborator has produced
    \* ---- DashboardSimulator.percentile ----
    pct_data,         \* argument data
    pct_p,            \* argument percentile
    pct_out,          \* outcome of the call: a returned value or an exception
    \* ---- DashboardSimulator.generate_performance_report ----
    report,           \* what the call printed and how it ended
    \* ---- SyntheticClinicalDataGenerator, one instance per run ----
    num_patients,     \* parameter: self.num_patients, the same in every run
    gen,              \* per run: the generators' states and self.patients
    \* ---- DashboardSimulator.simulate_single_dashboard_load, one call ----
    load,             \* argument, position, dashboard_results, outcome
    \* ---- SyntheticClinicalDataGenerator, one instance ----
    profile,          \* which of the draws vary in this behaviour
    patients,         \* self.patients
    encounters,       \* self.encounters
    lab_results,      \* self.lab_results
    enc_parent,       \* per encounter: the row of self.patients it is of
    lab_parent,       \* per lab result: the row of self.encounters it is of
    calls,            \* number of calls made on the generator
    last_call,        \* the last call and how it ended
    \* ---- the result value of one lab result ----
    lab,              \* the draws of one turn of the loop over selected_tests
    \* ---- DashboardSimulator.run_full_simulation, one call ----
    run               \* parameter, position, pending exception, disconnect

simVars == <<num_concurrent, num_iterations, num_rows, connection, ctl_pc,
             patient_ids, iteration, sess, collected, cur, all_results,
             query_results, faults>>

pctVars == <<pct_data, pct_p, pct_out>>

repVars == <<report>>

genVars == <<num_patients, gen>>

loadVars == <<load>>

dataVars == <<patients, encounters, lab_results, enc_parent, lab_parent>>

batchVars == <<profile, dataVars, calls, last_call>>

labVars == <<lab>>

runVars == <<run>>

vars == <<mode, simVars, pctVars, repVars, genVars, loadVars, batchVars,
          labVars, runVars>>

(***************************************************************************)
(* Bounds of the model.                                                    *)
(***************************************************************************)
MaxWidth == 2
MaxIterations == 2
MaxRows == 3
MaxFaults == 1
MaxLen == 3
MaxVal == 3
MaxResults == 3
MaxFast == 20
MaxSlow == 2
MaxPatients == 2
MaxUuid == 2
MaxClock == 1

(***************************************************************************)
(* Helpers.                                                                *)
(***************************************************************************)
Min2(a, b) == IF a <= b THEN a ELSE b

Range(s) == {s[i] : i \in DOMAIN s}

RECURSIVE SetMin(_)
SetMin(S) ==
    LET x == CHOOSE y \in S : TRUE
    IN  IF S = {x} THEN x ELSE Min2(x, SetMin(S \ {x}))

(***************************************************************************)
(* The dashboard session's query names, in issue order                     *)
(* (simulate_single_dashboard_load).                                       *)
(***************************************************************************)
SessionQueries == <<"patient_summary", "recent_encounters", "recent_labs">>

(***************************************************************************)
(* The steps of one execute_query call at which the execution collaborator *)
(* can fail: connection.cursor(), cursor.execute(), cursor.fetchall(),     *)
(* cursor.close(); "none" is a call in which nothing fails.                *)
(***************************************************************************)
FaultKinds == {"none", "cursor", "execute", "fetchall", "close"}

(***************************************************************************)
(* (time.time() - start_time) * 1000, rounded: the duration a call of      *)
(* execute_query measures.  The concurrency claims do not read it, so the  *)
(* simulator's runs draw it from one value.                                *)
(***************************************************************************)
ElapsedMs == {40}

(***************************************************************************)
(* execute_query(query_name, query_sql, params).  The cursor is acquired   *)
(* before the try block, so a failure there leaves the function as an      *)
(* exception; a failure of execute or fetchall is caught and becomes a     *)
(* result with success = False; the finally clause closes the cursor, and  *)
(* a failure there replaces the pending return by an exception.            *)
(***************************************************************************)
QueryResult(query_name, patient_id, elapsed, ok, err) ==
    [query_name |-> query_name, patient_id |-> patient_id,
     execution_time_ms |-> elapsed, success |-> ok, error |-> err]

execute_query(query_name, patient_id, fault, elapsed) ==
    IF fault = "cursor"
    THEN [raised |-> TRUE, exc |-> "cursor"]
    ELSE LET result ==
                 IF fault \in {"execute", "fetchall"}
                 THEN QueryResult(query_name, patient_id, elapsed, FALSE, fault)
                 ELSE QueryResult(query_name, patient_id, elapsed, TRUE, "None")
         IN  IF fault = "close"
             THEN [raised |-> TRUE, exc |-> "close"]
             ELSE [raised |-> FALSE, result |-> result]

(***************************************************************************)
(* get_sample_patient_ids(count): SELECT PATIENT_ID ... LIMIT count.  The  *)
(* table's ids are 1..num_rows; the query returns at most count of them.   *)
(***************************************************************************)
get_sample_patient_ids(count) ==
    [i \in 1..Min2(count, num_rows) |-> i]

(***************************************************************************)
(* Sessions are named by the position of their patient in patient_ids.     *)
(* iteration_patients = patient_ids[start_idx:end_idx].                    *)
(***************************************************************************)
IterationSessions(k) ==
    {s \in DOMAIN patient_ids :
        /\ s > k * num_concurrent
        /\ s <= k * num_concurrent + num_concurrent}

IterOf(s) == (s - 1) \div num_concurrent

Finished(s) == sess[s].pc \in {"done", "raised"}

NewSession == [pc |-> "unsubmitted", qi |-> 0, held |-> <<>>,
               dashboard_results |-> <<>>]

(***************************************************************************)
(* Where a worker session appends the result of each query: the local list *)
(* dashboard_results of simulate_single_dashboard_load.                    *)
(***************************************************************************)
SessionAppendsSharedMut == TRUE

SessionAppendsShared == FALSE

(***************************************************************************)
(* The controller leaves the with-block of an iteration when as_completed  *)
(* has yielded every future of the iteration and the executor's            *)
(* shutdown(wait=True) has seen every worker finish.                       *)
(***************************************************************************)
IterationCompleteMut == collected # {}

IterationComplete ==
    /\ collected = IterationSessions(iteration)
    /\ \A s \in IterationSessions(iteration) : Finished(s)

(***************************************************************************)
(* Initial state of a simulate_concurrent_dashboards call on a fresh       *)
(* DashboardSimulator (__init__).                                          *)
(***************************************************************************)
PctIdle ==
    /\ pct_data = <<>>
    /\ pct_p = 0
    /\ pct_out = [state |-> "idle"]

GenIdle ==
    /\ num_patients = 0
    /\ gen = <<>>

RepIdle == report = [outcome |-> "idle"]

LoadIdle == load = [pc |-> "idle"]

BatchIdle ==
    /\ profile = "idle"
    /\ patients = <<>>
    /\ encounters = <<>>
    /\ lab_results = <<>>
    /\ enc_parent = <<>>
    /\ lab_parent = <<>>
    /\ calls = 0
    /\ last_call = [op |-> "idle"]

LabIdle == lab = [pc |-> "idle"]

RunIdle == run = [pc |-> "idle"]

SimRest ==
    /\ num_concurrent = 1
    /\ num_iterations = 1
    /\ num_rows = 0
    /\ connection = "none"
    /\ ctl_pc = "idle"
    /\ patient_ids = <<>>
    /\ iteration = 0
    /\ sess = <<>>
    /\ collected = {}
    /\ cur = 0
    /\ all_results = <<>>
    /\ faults = 0

SimIdle ==
    /\ SimRest
    /\ query_results = <<>>

InitSim ==
    /\ mode = "sim"
    /\ RunIdle
    /\ PctIdle
    /\ RepIdle
    /\ GenIdle
    /\ LoadIdle
    /\ BatchIdle
    /\ LabIdle
    /\ num_concurrent \in 1..MaxWidth
    /\ num_iterations \in 1..MaxIterations
    /\ num_rows \in 0..MaxRows
    /\ connection = "none"
    /\ ctl_pc = "connect"
    /\ patient_ids = <<>>
    /\ iteration = 0
    /\ sess = <<>>
    /\ collected = {}
    /\ cur = 0
    /\ all_results = <<>>
    /\ query_results = <<>>
    /\ faults = 0

(***************************************************************************)
(* if not self.connection: self.connect()                                  *)
(***************************************************************************)
Connect ==
    /\ ctl_pc = "connect"
    /\ connection' = "open"
    /\ ctl_pc' = "fetch_ids"
    /\ UNCHANGED <<mode, runVars, loadVars, batchVars, labVars,
                 pctVars, repVars, genVars, num_concurrent, num_iterations,
                 num_rows, patient_ids,
                   iteration, sess, collected, cur, all_results,
                   query_results, faults>>

(***************************************************************************)
(* patient_ids = self.get_sample_patient_ids(num_concurrent *              *)
(* num_iterations); all_results = []                                       *)
(***************************************************************************)
GetSamplePatientIds ==
    /\ ctl_pc = "fetch_ids"
    /\ patient_ids' = get_sample_patient_ids(num_concurrent * num_iterations)
    /\ sess' = [s \in DOMAIN patient_ids' |-> NewSession]
    /\ all_results' = <<>>
    /\ iteration' = 0
    /\ ctl_pc' = "submit"
    /\ UNCHANGED <<mode, runVars, loadVars, batchVars, labVars,
                 pctVars, repVars, genVars, num_concurrent, num_iterations,
                 num_rows, connection,
                   collected, cur, query_results, faults>>

(***************************************************************************)
(* futures = [executor.submit(...) for patient_id in iteration_patients]:  *)
(* one future is submitted per step, in list order; the pool has           *)
(* num_concurrent threads, so a submitted session starts at once.          *)
(***************************************************************************)
ToSubmit == {s \in IterationSessions(iteration) : sess[s].pc = "unsubmitted"}

Submit ==
    /\ ctl_pc = "submit"
    /\ IF ToSubmit = {}
       THEN /\ ctl_pc' = "collect"
            /\ collected' = {}
            /\ UNCHANGED sess
       ELSE /\ sess' = [sess EXCEPT ![SetMin(ToSubmit)].pc = "running"]
            /\ UNCHANGED <<ctl_pc, collected>>
    /\ UNCHANGED <<mode, runVars, loadVars, batchVars, labVars,
                 pctVars, repVars, genVars, num_concurrent, num_iterations,
                 num_rows, connection,
                   patient_ids, iteration, cur, all_results, query_results,
                   faults>>

(***************************************************************************)
(* A worker thread inside simulate_single_dashboard_load: the call         *)
(* result = self.execute_query(query_name, query_sql, {...}).  An          *)
(* exception leaving execute_query ends the session: the future holds it.  *)
(***************************************************************************)
WorkerExecuteQuery(s, fault, elapsed) ==
    /\ s \in DOMAIN sess
    /\ sess[s].pc = "running"
    /\ fault # "none" => faults < MaxFaults
    /\ faults' = IF fault = "none" THEN faults ELSE faults + 1
    /\ LET out == execute_query(SessionQueries[sess[s].qi + 1],
                                patient_ids[s], fault, elapsed)
       IN  sess' = IF out.raised
                   THEN [sess EXCEPT ![s].pc = "raised"]
                   ELSE [sess EXCEPT ![s].pc = "append",
                                     ![s].held = <<out.result>>]
    /\ UNCHANGED <<mode, runVars, loadVars, batchVars, labVars,
                 pctVars, repVars, genVars, num_concurrent, num_iterations,
                 num_rows, connection,
                   ctl_pc, patient_ids, iteration, collected, cur,
                   all_results, query_results>>

(***************************************************************************)
(* The worker's dashboard_results.append(result), then the next turn of    *)
(* the loop over the three query names, or the return of the session.      *)
(***************************************************************************)
WorkerAppend(s) ==
    /\ s \in DOMAIN sess
    /\ sess[s].pc = "append"
    /\ LET qi2 == sess[s].qi + 1
           pc2 == IF qi2 = Len(SessionQueries) THEN "done" ELSE "running"
       IN  IF SessionAppendsShared
           THEN /\ query_results' = query_results \o sess[s].held
                /\ sess' = [sess EXCEPT ![s].pc = pc2, ![s].qi = qi2,
                                        ![s].held = <<>>]
           ELSE /\ sess' = [sess EXCEPT
                              ![s].pc = pc2, ![s].qi = qi2, ![s].held = <<>>,
                              ![s].dashboard_results =
                                  sess[s].dashboard_results \o sess[s].held]
                /\ UNCHANGED query_results
    /\ UNCHANGED <<mode, runVars, loadVars, batchVars, labVars,
                 pctVars, repVars, genVars, num_concurrent, num_iterations,
                 num_rows, connection,
                   ctl_pc, patient_ids, iteration, collected, cur,
                   all_results, faults>>

(***************************************************************************)
(* for future in as_completed(futures): result = future.result();          *)
(* all_results.append(result).  future.result() re-raises the exception of *)
(* a session that failed.                                                  *)
(***************************************************************************)
Collect(s) ==
    /\ ctl_pc = "collect"
    /\ s \in IterationSessions(iteration) \ collected
    /\ Finished(s)
    /\ collected' = collected \cup {s}
    /\ IF sess[s].pc = "raised"
       THEN /\ ctl_pc' = "unwind"
            /\ UNCHANGED <<cur, all_results>>
       ELSE /\ ctl_pc' = "store"
            /\ cur' = s
            /\ all_results' = Append(all_results, s)
    /\ UNCHANGED <<mode, runVars, loadVars, batchVars, labVars,
                 pctVars, repVars, genVars, num_concurrent, num_iterations,
                 num_rows, connection,
                   patient_ids, iteration, sess, query_results, faults>>

(***************************************************************************)
(* for query_result in result['query_results']:                            *)
(*     self.query_results.append(query_result)                             *)
(***************************************************************************)
Store ==
    /\ ctl_pc = "store"
    /\ query_results' = query_results \o sess[cur].dashboard_results
    /\ ctl_pc' = "collect"
    /\ UNCHANGED <<mode, runVars, loadVars, batchVars, labVars,
                 pctVars, repVars, genVars, num_concurrent, num_iterations,
                 num_rows, connection,
                   patient_ids, iteration, sess, collected, cur, all_results,
                   faults>>

(***************************************************************************)
(* The end of the with-block and of one turn of the for loop; after the    *)
(* last iteration, return all_results.                                     *)
(***************************************************************************)
EndIteration ==
    /\ ctl_pc = "collect"
    /\ IterationComplete
    /\ iteration' = iteration + 1
    /\ ctl_pc' = IF iteration + 1 = num_iterations THEN "done" ELSE "submit"
    /\ UNCHANGED <<mode, runVars, loadVars, batchVars, labVars,
                 pctVars, repVars, genVars, num_concurrent, num_iterations,
                 num_rows, connection,
                   patient_ids, sess, collected, cur, all_results,
                   query_results, faults>>

(***************************************************************************)
(* An exception raised inside the with-block: ThreadPoolExecutor.__exit__  *)
(* runs shutdown(wait=True), then the exception leaves                     *)
(* simulate_concurrent_dashboards.                                         *)
(***************************************************************************)
Unwind ==
    /\ ctl_pc = "unwind"
    /\ \A s \in IterationSessions(iteration) : Finished(s)
    /\ ctl_pc' = "raised"
    /\ UNCHANGED <<mode, runVars, loadVars, batchVars, labVars,
                 pctVars, repVars, genVars, num_concurrent, num_iterations,
                 num_rows, connection,
                   patient_ids, iteration, sess, collected, cur, all_results,
                   query_results, faults>>

NextSim ==
    \/ Connect
    \/ GetSamplePatientIds
    \/ Submit
    \/ \E s \in 1..(MaxWidth * MaxIterations), f \in FaultKinds,
          e \in ElapsedMs :
            WorkerExecuteQuery(s, f, e)
    \/ \E s \in 1..(MaxWidth * MaxIterations) : WorkerAppend(s)
    \/ \E s \in 1..(MaxWidth * MaxIterations) : Collect(s)
    \/ Store
    \/ EndIteration
    \/ Unwind

Spec == InitSim /\ [][NextSim]_vars

(***************************************************************************)
(* Claims about simulate_concurrent_dashboards (specification Spec).       *)
(***************************************************************************)
NoDuplicates(seq) ==
    \A i, j \in DOMAIN seq : i # j => seq[i] # seq[j]

(* C1: a run that returns has recorded exactly W x I x 3 QueryResults in   *)
(* query_results, none of them twice.                                      *)
C1_RecordsWxIx3 ==
    ctl_pc = "done" =>
        /\ Len(query_results) =
               num_concurrent * num_iterations * Len(SessionQueries)
        /\ NoDuplicates(query_results)

(* C2: no failure of the execution collaborator leaves execute_query as an *)
(* exception: no session is ended by one and the controller's run is not   *)
(* cut short by one.                                                       *)
C2_ExecuteQueryNeverRaises ==
    /\ \A s \in DOMAIN sess : sess[s].pc # "raised"
    /\ ctl_pc \notin {"unwind", "raised"}

(* C3: whenever a session of a later iteration has been started, every     *)
(* session of each earlier iteration has completed or failed.              *)
C3_IterationsSequential ==
    \A a, b \in DOMAIN sess :
        (IterOf(a) < IterOf(b) /\ sess[b].pc # "unsubmitted") => Finished(a)

C3_Witness ==
    \E a, b \in DOMAIN sess :
        /\ IterOf(a) = 0
        /\ IterOf(b) = 1
        /\ IterationSessions(0) = {a, a + 1}
        /\ sess[b].pc = "running"

(* C4: at no time are two execution units (the controller, the worker      *)
(* sessions) both at an append to the shared query_results, and the        *)
(* collection holds every result of every stored session.                  *)
Appenders ==
    (IF ctl_pc = "store" THEN {0} ELSE {})
    \cup {s \in DOMAIN sess : sess[s].pc = "append" /\ SessionAppendsShared}

C4_AppendsNeverConcurrent ==
    /\ Cardinality(Appenders) <= 1
    /\ ctl_pc # "store" =>
           Len(query_results) = Len(all_results) * Len(SessionQueries)

C4_Witness ==
    /\ ctl_pc = "store"
    /\ \E s \in DOMAIN sess : sess[s].pc = "append"

(***************************************************************************)
(* DashboardSimulator.percentile(data, percentile).                        *)
(*                                                                         *)
(* sorted(data), modelled as an insertion sort into ascending order.       *)
(***************************************************************************)
RECURSIVE Insert(_, _)
Insert(x, s) ==
    IF s = <<>> THEN <<x>>
    ELSE IF x <= Head(s) THEN <<x>> \o s
    ELSE <<Head(s)>> \o Insert(x, Tail(s))

RECURSIVE sorted(_)
sorted(s) == IF s = <<>> THEN <<>> ELSE Insert(Head(s), sorted(Tail(s)))

(***************************************************************************)
(* int(size * percentile / 100): true division, then truncation.  For the  *)
(* non-negative integers used here that is the integer quotient.           *)
(***************************************************************************)
PercentileIndex(size, p) == (size * p) \div 100

(***************************************************************************)
(* sorted(data)[index]: Python indexes from 0 and raises IndexError for an *)
(* index >= len.                                                           *)
(***************************************************************************)
percentile_unsorted(data, p) ==
    LET idx == PercentileIndex(Len(data), p)
    IN  IF idx + 1 \in DOMAIN data
        THEN [state |-> "returned", value |-> data[idx + 1]]
        ELSE [state |-> "IndexError"]

percentile(data, p) ==
    LET idx == PercentileIndex(Len(data), p)
        srt == sorted(data)
    IN  IF idx + 1 \in DOMAIN srt
        THEN [state |-> "returned", value |-> srt[idx + 1]]
        ELSE [state |-> "IndexError"]

(***************************************************************************)
(* Inputs of percentile: every sample of up to MaxLen latencies drawn from *)
(* MaxVal values, the sample of the documentation and a shuffle of it, and *)
(* every whole percentile from 0 to 100.                                   *)
(***************************************************************************)
SeqsUpTo(S, n) == UNION {[1..k -> S] : k \in 0..n}

Latencies == {10 * k : k \in 1..MaxVal}

KnownSample == <<10, 20, 30, 40, 50>>

ShuffledSample == <<50, 10, 40, 20, 30>>

Samples == SeqsUpTo(Latencies, MaxLen) \cup {KnownSample, ShuffledSample}

InitPercentile ==
    /\ mode = "percentile"
    /\ RunIdle
    /\ LoadIdle
    /\ BatchIdle
    /\ LabIdle
    /\ SimIdle
    /\ RepIdle
    /\ GenIdle
    /\ pct_data \in Samples
    /\ pct_p \in 0..100
    /\ pct_out = [state |-> "pending"]

CallPercentile ==
    /\ mode = "percentile"
    /\ pct_out.state = "pending"
    /\ pct_out' = percentile(pct_data, pct_p)
    /\ UNCHANGED <<mode, runVars, loadVars, batchVars, labVars,
                 simVars, repVars, genVars, pct_data, pct_p>>

NextPercentile == CallPercentile

SpecPercentile == InitPercentile /\ [][NextPercentile]_vars

(***************************************************************************)
(* Claims about percentile (specification SpecPercentile).                 *)
(***************************************************************************)
Below(data, v) == Cardinality({i \in DOMAIN data : data[i] < v})

AtMost(data, v) == Cardinality({i \in DOMAIN data : data[i] <= v})

(* C5: whenever percentile returns, the value is the element of rank       *)
(* floor(N x p / 100) (counted from 0) of the sample in ascending order,   *)
(* whatever the order of the input: it belongs to the sample, at most that *)
(* many elements are smaller and more than that many are not greater; it   *)
(* returns for every non-empty sample and p < 100; and for [10,20,30,40,50]*)
(* in either order P95 = 50 and P50 = 30.                                  *)
C5_NearestRank ==
    LET n == Len(pct_data)
        k == (n * pct_p) \div 100
    IN  /\ pct_out.state = "returned" =>
            /\ pct_out.value \in Range(pct_data)
            /\ Below(pct_data, pct_out.value) <= k
            /\ k < AtMost(pct_data, pct_out.value)
        /\ (pct_out.state \notin {"pending", "idle"} /\ n > 0 /\ pct_p < 100)
               => pct_out.state = "returned"
        /\ (pct_out.state \notin {"pending", "idle"}
              /\ pct_data \in {KnownSample, ShuffledSample}) =>
            /\ pct_p = 95 => pct_out = [state |-> "returned", value |-> 50]
            /\ pct_p = 50 => pct_out = [state |-> "returned", value |-> 30]

C5_Witness ==
    /\ pct_data = ShuffledSample
    /\ pct_p = 95
    /\ pct_out = [state |-> "returned", value |-> 50]

(* C6: for every non-empty sample and every p from 0 to 100, percentile    *)
(* returns an element of the sample, the maximum for p = 100.              *)
C6_IndexClamped ==
    (pct_out.state \notin {"pending", "idle"} /\ Len(pct_data) > 0) =>
        /\ pct_out.state = "returned"
        /\ pct_out.value \in Range(pct_data)
        /\ pct_p = 100 => \A i \in DOMAIN pct_data :
                              pct_data[i] <= pct_out.value

(***************************************************************************)
(* DashboardSimulator.generate_performance_report.                         *)
(* Latencies are whole milliseconds.                                       *)
(***************************************************************************)
LatencyThresholdMs == 100

SlaPercent == 95

RECURSIVE SeqSum(_)
SeqSum(s) == IF s = <<>> THEN 0 ELSE Head(s) + SeqSum(Tail(s))

(* if not self.query_results *)
NoResultsMut(qr) == FALSE

NoResults(qr) == qr = <<>>

(* df[df['success'] == True] *)
IsSuccessfulMut(r) == TRUE

IsSuccessful(r) == r.success

(* sum(1 for t in times if t < 100) *)
UnderThresholdMut(t) == t <= LatencyThresholdMs

UnderThreshold(t) == t < LatencyThresholdMs

(* pct = (under / len(times)) * 100; pct >= 95.  In floating point the     *)
(* product compares with 95 as the exact fraction does (19/20*100 is 95.0).*)
SlaMet(under, count) == under * 100 >= SlaPercent * count

(* query_data['execution_time_ms'].tolist() *)
TimesOf(rows) == [i \in DOMAIN rows |-> rows[i].execution_time_ms]

(* statistics.median, doubled: the middle value twice, or the sum of the   *)
(* two middle values.                                                      *)
Median2(times) ==
    LET srt == sorted(times)
        n == Len(times)
    IN  IF n % 2 = 1 THEN 2 * srt[(n + 1) \div 2]
        ELSE srt[n \div 2] + srt[n \div 2 + 1]

(* The figures printed for one query name; the mean is sum / count. *)
TypeStats(times) ==
    LET under == Len(SelectSeq(times, UnderThreshold))
    IN  [count |-> Len(times),
         sum |-> SeqSum(times),
         median2 |-> Median2(times),
         min |-> sorted(times)[1],
         max |-> sorted(times)[Len(times)],
         p95 |-> percentile(times, 95),
         p99 |-> percentile(times, 99),
         under |-> under,
         sla_met |-> SlaMet(under, Len(times))]

(* The figures printed under OVERALL LATENCY DISTRIBUTION. *)
OverallStats(times) ==
    LET under == Len(SelectSeq(times, UnderThreshold))
    IN  [count |-> Len(times),
         sum |-> SeqSum(times),
         median2 |-> Median2(times),
         p95 |-> percentile(times, 95),
         p99 |-> percentile(times, 99),
         under |-> under,
         sla_met |-> SlaMet(under, Len(times))]

generate_performance_report(qr) ==
    IF NoResults(qr)
    THEN [outcome |-> "no_data"]
    ELSE IF Len(qr) = 0
    THEN \* a DataFrame of no rows has no 'success' column
         [outcome |-> "raised", exc |-> "KeyError"]
    ELSE LET successful_queries == SelectSeq(qr, IsSuccessful)
             names == {successful_queries[i].query_name :
                          i \in DOMAIN successful_queries}
             query_data(n) ==
                 SelectSeq(successful_queries, LAMBDA r : r.query_name = n)
         IN  [outcome |-> "report",
              total |-> Len(qr),
              successful |-> Len(successful_queries),
              failed |-> Len(qr) - Len(successful_queries),
              per_type |-> [n \in names |-> TypeStats(TimesOf(query_data(n)))],
              overall |-> IF Len(successful_queries) > 0
                          THEN <<OverallStats(TimesOf(successful_queries))>>
                          ELSE <<>>,
              csv_rows |-> Len(qr)]

(***************************************************************************)
(* Inputs of the reporter: every collection of up to MaxResults results    *)
(* over two query names, three latencies and both outcomes, and the        *)
(* batches of up to MaxFast fast and MaxSlow slow successful results.      *)
(***************************************************************************)
ReportRows ==
    [query_name : {"patient_summary", "ed_census"},
     execution_time_ms : {40, 100, 500},
     success : BOOLEAN]

Repeat(r, n) == [i \in 1..n |-> r]

FastRow == [query_name |-> "patient_summary", execution_time_ms |-> 40,
            success |-> TRUE]

SlowRow == [query_name |-> "patient_summary", execution_time_ms |-> 500,
            success |-> TRUE]

Batches == {Repeat(FastRow, a) \o Repeat(SlowRow, b) :
                a \in 0..MaxFast, b \in 0..MaxSlow}

InitReport ==
    /\ mode = "report"
    /\ RunIdle
    /\ LoadIdle
    /\ BatchIdle
    /\ LabIdle
    /\ SimRest
    /\ PctIdle
    /\ GenIdle
    /\ query_results \in SeqsUpTo(ReportRows, MaxResults) \cup Batches
    /\ report = [outcome |-> "pending"]

GenerateReport ==
    /\ mode = "report"
    /\ report.outcome = "pending"
    /\ report' = generate_performance_report(query_results)
    /\ UNCHANGED <<mode, runVars, loadVars, batchVars, labVars,
                 simVars, pctVars, genVars>>

NextReport == GenerateReport

SpecReport == InitReport /\ [][NextReport]_vars

(***************************************************************************)
(* Claims about generate_performance_report (specification SpecReport).    *)
(***************************************************************************)
Reported == report.outcome \notin {"pending", "idle"}

\* positions of the successful results, of those named n, and of the fast ones
OkAt == {i \in DOMAIN query_results : query_results[i].success}

OkOf(n) == {i \in OkAt : query_results[i].query_name = n}

FastIn(S) == {i \in S : query_results[i].execution_time_ms < 100}

NineteenOfTwenty == Repeat(FastRow, 19) \o Repeat(SlowRow, 1)

(* C7 as stated: the reporter emits a verdict for every query type of the  *)
(* recorded results and one for the whole run, each "met" exactly when at  *)
(* least 95% of the samples are strictly below 100 ms.                     *)
C7_VerdictPerTypeAndRun ==
    report.outcome = "report" =>
        /\ DOMAIN report.per_type =
               {query_results[i].query_name : i \in DOMAIN query_results}
        /\ Len(report.overall) = 1
        /\ \A n \in DOMAIN report.per_type :
               report.per_type[n].sla_met <=>
                   (Cardinality(FastIn(OkOf(n))) * 100
                        >= 95 * Cardinality(OkOf(n)))
        /\ report.overall[1].sla_met <=>
               (Cardinality(FastIn(OkAt)) * 100 >= 95 * Cardinality(OkAt))

(* C7 amended: the samples are the latencies of the successful results.    *)
(* The report holds one verdict for each query name that has at least one  *)
(* sample and, when the run has at least one sample, one for the whole     *)
(* run; a verdict is "met" exactly when at least 95% of its samples are    *)
(* strictly below 100 ms.  For 19 samples under 100 ms and one of 500 ms   *)
(* the fraction is exactly 95% and both verdicts are "met".                *)
C7_SlaVerdict ==
    report.outcome = "report" =>
        /\ DOMAIN report.per_type =
               {query_results[i].query_name : i \in OkAt}
        /\ \A n \in DOMAIN report.per_type :
               report.per_type[n].sla_met <=>
                   (Cardinality(FastIn(OkOf(n))) * 100
                        >= 95 * Cardinality(OkOf(n)))
        /\ Len(report.overall) = (IF OkAt = {} THEN 0 ELSE 1)
        /\ OkAt # {} =>
               (report.overall[1].sla_met <=>
                   (Cardinality(FastIn(OkAt)) * 100 >= 95 * Cardinality(OkAt)))
        /\ query_results = NineteenOfTwenty =>
               /\ report.overall[1].under * 100 = 95 * report.overall[1].count
               /\ report.overall[1].sla_met
               /\ report.per_type["patient_summary"].sla_met

C7_Witness ==
    /\ query_results = NineteenOfTwenty
    /\ report.outcome = "report"
    /\ report.overall[1].sla_met

RECURSIVE SumCounts(_, _)
SumCounts(f, S) ==
    IF S = {} THEN 0
    ELSE LET n == CHOOSE m \in S : TRUE
         IN  f[n].count + SumCounts(f, S \ {n})

MeanWithin(sum, count, S) ==
    \* sum / count lies between the least and the greatest latency at the
    \* positions S
    /\ count = Cardinality(S)
    /\ \E lo, hi \in S :
           /\ \A i \in S :
                  /\ query_results[lo].execution_time_ms
                         <= query_results[i].execution_time_ms
                  /\ query_results[i].execution_time_ms
                         <= query_results[hi].execution_time_ms
           /\ query_results[lo].execution_time_ms * count <= sum
           /\ sum <= query_results[hi].execution_time_ms * count

(* C8 as stated: for every collection of N >= 0 results, successful or     *)
(* failed, the reporter computes the count N, the per-query-name counts    *)
(* add up to N and every mean lies between min and max of its samples.     *)
(* (A "no data" report of an empty collection is taken as the count 0.)    *)
C8_CountsAddUpToN ==
    Reported =>
        IF report.outcome = "no_data"
        THEN Len(query_results) = 0
        ELSE /\ report.outcome = "report"
             /\ report.total = Len(query_results)
             /\ SumCounts(report.per_type, DOMAIN report.per_type)
                    = Len(query_results)
             /\ \A n \in DOMAIN report.per_type :
                    MeanWithin(report.per_type[n].sum,
                               report.per_type[n].count, OkOf(n))

(* C8 amended: for N >= 1 the total the reporter computes is N, split into *)
(* the successful and the failed results; the per-query-name counts add up *)
(* to the number of successful results; every per-name figure has at least *)
(* one sample, its min and max are the least and greatest of its samples   *)
(* and its mean (like the overall mean) lies between them.  For N = 0 the  *)
(* reporter computes no count and reports no data.                         *)
C8_CountsOfSuccessful ==
    Reported =>
        /\ Len(query_results) = 0 => report.outcome = "no_data"
        /\ Len(query_results) >= 1 =>
            /\ report.outcome = "report"
            /\ report.total = Len(query_results)
            /\ report.successful = Cardinality(OkAt)
            /\ report.failed = Len(query_results) - Cardinality(OkAt)
            /\ SumCounts(report.per_type, DOMAIN report.per_type)
                   = Cardinality(OkAt)
            /\ \A n \in DOMAIN report.per_type :
                   /\ report.per_type[n].count >= 1
                   /\ MeanWithin(report.per_type[n].sum,
                                 report.per_type[n].count, OkOf(n))
                   /\ report.per_type[n].min * report.per_type[n].count
                          <= report.per_type[n].sum
                   /\ report.per_type[n].sum
                          <= report.per_type[n].max * report.per_type[n].count
                   /\ \A i \in OkOf(n) :
                          /\ report.per_type[n].min
                                 <= query_results[i].execution_time_ms
                          /\ query_results[i].execution_time_ms
                                 <= report.per_type[n].max
            /\ OkAt # {} =>
                   MeanWithin(report.overall[1].sum, report.overall[1].count,
                              OkAt)

C8_Witness ==
    /\ report.outcome = "report"
    /\ report.failed >= 1
    /\ report.successful >= 2
    /\ Cardinality(DOMAIN report.per_type) = 2

(* C9: invoked with no recorded results the reporter reports "no data" and *)
(* returns; no call of it ends in an exception.                            *)
C9_EmptyReportsNoData ==
    /\ (Reported /\ query_results = <<>>) => report = [outcome |-> "no_data"]
    /\ report.outcome # "raised"

C9_Witness ==
    /\ query_results = <<>>
    /\ report = [outcome |-> "no_data"]

(***************************************************************************)
(* synthetic_data_generator.py.                                            *)
(*                                                                         *)
(* The seeded generators (Faker, numpy.random, random): a state, a step    *)
(* function and the value a draw reads off the state.  Equal states give   *)
(* equal draws.  The step is a full-period congruential generator on       *)
(* sixteen states.                                                         *)
(***************************************************************************)
Seed == 42

Seeded(seed) == seed % 16

Advance(state) == (state * 5 + 3) % 16

(* Faker.seed(42); np.random.seed(42); random.seed(42), run at import. *)
ModuleSeeding ==
    [faker |-> Seeded(Seed), np |-> Seeded(Seed), random |-> Seeded(Seed)]

Genders == <<"Male", "Female", "Other">>

(* random.choice(seq) *)
RandomChoice(state, seq) == seq[(state % Len(seq)) + 1]

(* random.randint(a, b), both ends included *)
RandomInt(state, a, b) == a + (state % (b - a + 1))

(* The sources that no seeding reaches: uuid.uuid4() reads the operating   *)
(* system's random bytes and datetime.now() reads the wall clock.          *)
Uuids == 1..MaxUuid

Clock == 0..MaxClock

NonDecreasing(ticks) ==
    \A i, j \in DOMAIN ticks : i <= j => ticks[i] <= ticks[j]

None == <<>>

Some(x) == <<x>>

Runs == {1, 2}

(***************************************************************************)
(* One turn of the loop of generate_patients: the patient dict.  `uuid` is *)
(* the draw of uuid4, `days` the draw of random.randint(365, 3650), `now1` *)
(* and `now2` the two readings of the clock; the Faker fields are one draw *)
(* of the Faker generator.  Timestamps are in hours.                       *)
(***************************************************************************)
PatientRow(uuid, demographics, gender, days, now1, now2) ==
    [PATIENT_ID |-> uuid,
     DEMOGRAPHICS |-> demographics,
     GENDER |-> gender,
     CREATED_AT |-> now1 - 24 * days,
     UPDATED_AT |-> now2,
     DELETED_AT |-> None]

(* the same, with the seeded draws read off the generators' states *)
Patient(rng, uuid, now1, now2) ==
    PatientRow(uuid, rng.faker, RandomChoice(rng.random, Genders),
               RandomInt(Advance(rng.random), 365, 3650), now1, now2)

AfterPatient(rng) ==
    [rng EXCEPT !.faker = Advance(rng.faker),
                !.random = Advance(Advance(rng.random))]

RECURSIVE PatientRows(_, _, _, _)
PatientRows(rng, n, uuids, ticks) ==
    \* the rows of patients n, n+1, ..; patient k reads ticks 2k-1 and 2k
    IF n > Len(uuids) THEN <<>>
    ELSE <<Patient(rng, uuids[n], ticks[2 * n - 1], ticks[2 * n])>>
         \o PatientRows(AfterPatient(rng), n + 1, uuids, ticks)

RECURSIVE RngAfter(_, _)
RngAfter(rng, n) == IF n = 0 THEN rng ELSE RngAfter(AfterPatient(rng), n - 1)

InitRepeat ==
    /\ mode = "repeat"
    /\ RunIdle
    /\ LoadIdle
    /\ BatchIdle
    /\ LabIdle
    /\ SimIdle
    /\ PctIdle
    /\ RepIdle
    /\ num_patients \in 1..MaxPatients
    /\ gen = [r \in Runs |-> [rng |-> ModuleSeeding, patients |-> None]]

(***************************************************************************)
(* generate_patients() of run r.                                           *)
(***************************************************************************)
GeneratePatients(r) ==
    /\ mode = "repeat"
    /\ gen[r].patients = None
    /\ \E uuids \in [1..num_patients -> Uuids],
          ticks \in [1..(2 * num_patients) -> Clock] :
            /\ NonDecreasing(ticks)
            /\ gen' = [gen EXCEPT
                 ![r].patients =
                     Some(PatientRows(gen[r].rng, 1, uuids, ticks)),
                 ![r].rng = RngAfter(gen[r].rng, num_patients)]
    /\ UNCHANGED <<mode, runVars, loadVars, batchVars, labVars,
                 simVars, pctVars, repVars, num_patients>>

NextRepeat == \E r \in Runs : GeneratePatients(r)

SpecRepeat == InitRepeat /\ [][NextRepeat]_vars

(***************************************************************************)
(* Claims about the generator's repeatability (specification SpecRepeat).  *)
(***************************************************************************)
(* C10: two runs with the same seed and the same parameters hold the same  *)
(* datasets, field for field; the patients dataset is the first of them.   *)
C10_SameSeedSameData ==
    (\A r \in Runs : gen[r].patients # None) =>
        gen[1].patients = gen[2].patients

(***************************************************************************)
(* simulate_single_dashboard_load(patient_id), one call.                   *)
(*                                                                         *)
(* Inputs: the patient id, and for each of the three queries the step at   *)
(* which the execution collaborator fails (if any) and the duration the    *)
(* call measures, a multiple of ten milliseconds up to 10 * MaxElapsed.    *)
(***************************************************************************)
MaxElapsed == 2

LoadPatientIds == 1..MaxRows

LoadElapsedMs == {10 * k : k \in 0..MaxElapsed}

InitLoad ==
    /\ mode = "load"
    /\ RunIdle
    /\ SimIdle
    /\ PctIdle
    /\ RepIdle
    /\ GenIdle
    /\ BatchIdle
    /\ LabIdle
    /\ \E patient_id \in LoadPatientIds :
          load = [pc |-> "loop", patient_id |-> patient_id,
                  dashboard_results |-> <<>>]

(* sum(r['execution_time_ms'] for r in dashboard_results) *)
TotalTimeMut(dashboard_results) ==
    SeqSum(TimesOf(SelectSeq(dashboard_results, LAMBDA r : r.success)))

TotalTime(dashboard_results) == SeqSum(TimesOf(dashboard_results))

(* round(total_time, 2): the durations summed are themselves rounded to    *)
(* two decimals, and rounding their sum to two decimals gives their exact  *)
(* decimal sum.                                                            *)
Round2OfSum(total) == total

(* the dict the function returns *)
DashboardLoad(patient_id, dashboard_results) ==
    [patient_id |-> patient_id,
     total_load_time_ms |-> Round2OfSum(TotalTime(dashboard_results)),
     query_results |-> dashboard_results]

(***************************************************************************)
(* One turn of the for loop over the three query names: execute_query and  *)
(* the append.  An exception of execute_query is not caught here and ends  *)
(* the call.                                                               *)
(***************************************************************************)
LoadExecuteQuery(fault, elapsed) ==
    /\ mode = "load"
    /\ load.pc = "loop"
    /\ Len(load.dashboard_results) < Len(SessionQueries)
    /\ LET query_name == SessionQueries[Len(load.dashboard_results) + 1]
           r == execute_query(query_name, load.patient_id, fault, elapsed)
       IN  load' = IF r.raised
                   THEN [pc |-> "raised", patient_id |-> load.patient_id,
                         exc |-> r.exc]
                   ELSE [load EXCEPT !.dashboard_results =
                                         Append(@, r.result)]
    /\ UNCHANGED <<mode, runVars, simVars, pctVars, repVars, genVars,
                   batchVars, labVars>>

(* after the loop: the sum and the return *)
LoadReturn ==
    /\ mode = "load"
    /\ load.pc = "loop"
    /\ Len(load.dashboard_results) = Len(SessionQueries)
    /\ load' = [pc |-> "returned", patient_id |-> load.patient_id,
                out |-> DashboardLoad(load.patient_id,
                                      load.dashboard_results)]
    /\ UNCHANGED <<mode, runVars, simVars, pctVars, repVars, genVars,
                   batchVars, labVars>>

NextLoad ==
    \/ \E fault \in FaultKinds, elapsed \in LoadElapsedMs :
          LoadExecuteQuery(fault, elapsed)
    \/ LoadReturn

SpecLoad == InitLoad /\ [][NextLoad]_vars

(***************************************************************************)
(* Claims about one dashboard session (specification SpecLoad).            *)
(***************************************************************************)
(* C14: the total_load_time_ms of a returned session is the sum of the     *)
(* execution_time_ms of its three query results, failed ones included, and *)
(* all three were issued for the session's patient id.                     *)
C14_TotalIsSumOfQueries ==
    load.pc = "returned" =>
        LET out == load.out
        IN  /\ Len(out.query_results) = Len(SessionQueries)
            /\ out.total_load_time_ms =
                   out.query_results[1].execution_time_ms
                   + out.query_results[2].execution_time_ms
                   + out.query_results[3].execution_time_ms
            /\ \A i \in DOMAIN out.query_results :
                   /\ out.query_results[i].patient_id = out.patient_id
                   /\ out.query_results[i].query_name = SessionQueries[i]

(* a returned session with a failed query of non-zero duration and with    *)
(* three different durations                                               *)
C14_Witness ==
    /\ load.pc = "returned"
    /\ ~load.out.query_results[2].success
    /\ load.out.query_results[1].execution_time_ms = 10
    /\ load.out.query_results[2].execution_time_ms = 20
    /\ load.out.query_results[3].execution_time_ms = 0
    /\ load.out.total_load_time_ms = 30

(* The session-level failure flag of a returned session: the value of a    *)
(* field that says so, absent from the dict the function builds.           *)
SessionFlagged(out) ==
    IF "failed" \in DOMAIN out THEN out.failed
    ELSE IF "success" \in DOMAIN out THEN ~out.success
    ELSE FALSE

(* C15: a returned session is flagged exactly when at least one of its     *)
(* queries failed.                                                         *)
C15_FlaggedIffAQueryFailed ==
    load.pc = "returned" =>
        (SessionFlagged(load.out) <=>
            \E i \in DOMAIN load.out.query_results :
                ~load.out.query_results[i].success)

(***************************************************************************)
(* SyntheticClinicalDataGenerator.__init__: the clinical dictionaries.     *)
(* Result values, range ends and thresholds are in hundredths of the       *)
(* test's unit, the resolution of round(.., 2).                            *)
(***************************************************************************)
encounter_types == <<"EMERGENCY", "INPATIENT", "OUTPATIENT", "TELEHEALTH">>

diagnosis_codes ==
    <<"E11.9", "I10", "J44.9", "E78.5", "J06.9", "M25.50", "R51", "K21.9",
      "E66.9", "F41.9">>

(* list(self.lab_tests.keys()), in insertion order *)
TestCodes ==
    <<"HBA1C", "GLUCOSE", "WBC", "HEMOGLOBIN", "CREATININE", "ALT",
      "CHOLESTEROL", "TROPONIN">>

TestInfo(unit, normal_min, normal_max, critical_threshold) ==
    [unit |-> unit, normal_min |-> normal_min, normal_max |-> normal_max,
     critical_threshold |-> critical_threshold]

lab_tests ==
    [test_code \in Range(TestCodes) |->
        CASE test_code = "HBA1C" -> TestInfo("%", 400, 560, 900)
          [] test_code = "GLUCOSE" -> TestInfo("mg/dL", 7000, 10000, 25000)
          [] test_code = "WBC" -> TestInfo("K/uL", 450, 1100, 2000)
          [] test_code = "HEMOGLOBIN" -> TestInfo("g/dL", 1200, 1600, 700)
          [] test_code = "CREATININE" -> TestInfo("mg/dL", 60, 120, 300)
          [] test_code = "ALT" -> TestInfo("U/L", 700, 5600, 20000)
          [] test_code = "CHOLESTEROL" -> TestInfo("mg/dL", 12500, 20000, 30000)
          [] test_code = "TROPONIN" -> TestInfo("ng/mL", 0, 4, 100)]

(***************************************************************************)
(* round(random.uniform(a, b), 2).  random.uniform(a, b) is                *)
(* a + (b - a) * random.random() with random.random() in [0, 1), whatever  *)
(* the order of a and b; the draw is step u of UniformSteps equal steps    *)
(* from a towards b, and the last step stands for the draws that round to  *)
(* b.  The result is rounded to the nearest hundredth.                     *)
(***************************************************************************)
UniformSteps == 2

RoundDiv(num, den) == (2 * num + den) \div (2 * den)

round2_uniform(a, b, u) == a + RoundDiv((b - a) * u, UniformSteps)

(* normal_max * 1.5 and normal_min * 0.5 *)
TimesOneAndAHalf(x) == (3 * x) \div 2

Half(x) == x \div 2

(***************************************************************************)
(* The result value and the abnormal flag of one lab result:               *)
(* result_type is the draw of random.choices over normal, abnormal and     *)
(* critical; is_high is random.random() < 0.5, read only for an abnormal   *)
(* result; u is the draw of random.uniform.                                *)
(***************************************************************************)
ResultTypes == {"normal", "abnormal", "critical"}

ResultValue(test_info, result_type, is_high, u) ==
    LET normal_min == test_info.normal_min
        normal_max == test_info.normal_max
    IN  IF result_type = "normal"
        THEN [result_value |-> round2_uniform(normal_min, normal_max, u),
              abnormal_flag |-> None]
        ELSE IF result_type = "abnormal"
        THEN IF is_high
             THEN [result_value |->
                       round2_uniform(normal_max,
                                      TimesOneAndAHalf(normal_max), u),
                   abnormal_flag |-> Some("HIGH")]
             ELSE [result_value |->
                       round2_uniform(Half(normal_min), normal_min, u),
                   abnormal_flag |-> Some("LOW")]
        ELSE [result_value |->
                  round2_uniform(TimesOneAndAHalf(normal_max),
                                 test_info.critical_threshold, u),
              abnormal_flag |-> Some("CRITICAL")]

(***************************************************************************)
(* One turn of the loop over selected_tests, up to the flag: every test of *)
(* the catalog with every draw.                                            *)
(***************************************************************************)
InitLabValue ==
    /\ mode = "lab_value"
    /\ RunIdle
    /\ SimIdle
    /\ PctIdle
    /\ RepIdle
    /\ GenIdle
    /\ LoadIdle
    /\ BatchIdle
    /\ \E test_code \in Range(TestCodes), result_type \in ResultTypes,
          is_high \in BOOLEAN, u \in 0..UniformSteps :
            /\ result_type # "abnormal" => is_high
            /\ lab = [pc |-> "drawn", test_code |-> test_code,
                      result_type |-> result_type, is_high |-> is_high,
                      u |-> u]

GenerateResultValue ==
    /\ mode = "lab_value"
    /\ lab.pc = "drawn"
    /\ LET out == ResultValue(lab_tests[lab.test_code], lab.result_type,
                              lab.is_high, lab.u)
       IN  lab' = [lab EXCEPT !.pc = "done"] @@
                  [result_value |-> out.result_value,
                   abnormal_flag |-> out.abnormal_flag]
    /\ UNCHANGED <<mode, runVars, simVars, pctVars, repVars, genVars, loadVars,
                   batchVars>>

NextLabValue == GenerateResultValue

SpecLabValue == InitLabValue /\ [][NextLabValue]_vars

(***************************************************************************)
(* Claims about result values (specification SpecLabValue).                *)
(***************************************************************************)
(* C20: for every test of the catalog, an unflagged (normal) result has a  *)
(* value within the normal range, a normal draw gives no flag, a result    *)
(* flagged HIGH has a value above the normal maximum and a result flagged  *)
(* LOW has a value below the normal minimum.                               *)
C20_ValueMatchesFlag ==
    lab.pc = "done" =>
        LET info == lab_tests[lab.test_code]
            v == lab.result_value
        IN  /\ lab.result_type = "normal" =>
                   /\ lab.abnormal_flag = None
                   /\ info.normal_min <= v
                   /\ v <= info.normal_max
            /\ lab.abnormal_flag = Some("HIGH") => v > info.normal_max
            /\ lab.abnormal_flag = Some("LOW") => v < info.normal_min

(* C22: for every test of the catalog, a result flagged CRITICAL has a     *)
(* value outside the test's normal range.                                  *)
C22_CriticalOutsideNormal ==
    (lab.pc = "done" /\ lab.abnormal_flag = Some("CRITICAL")) =>
        LET info == lab_tests[lab.test_code]
            v == lab.result_value
        IN  v < info.normal_min \/ v > info.normal_max

(***************************************************************************)
(* One SyntheticClinicalDataGenerator and its three generate methods.      *)
(*                                                                         *)
(* The draws of the random sources are the inputs of the methods.  A       *)
(* behaviour varies one family of draws and keeps the others at one value; *)
(* `profile` names the family:                                             *)
(*   "calls"       the identifier draws (uuid4), for one patient with one  *)
(*                 or two encounters                                       *)
(*   "timeline"    the date offsets, over the ends of their ranges, and    *)
(*                 the encounter type                                      *)
(*   "encounters"  the Poisson draw of the encounters of a patient         *)
(*   "labs"        the encounter type, the Poisson draw of the lab results *)
(*                 of an encounter and the sample of test codes            *)
(***************************************************************************)
MaxCalls == 4
MaxPoisson == 22
MaxLabPoisson == 11

Max2(a, b) == IF a >= b THEN a ELSE b

(* uuid.uuid4().hex[:8] of rows 1..n of a dataset: any value for any row,  *)
(* or, where the identifiers are not what varies, a fresh value per row    *)
UuidDraws(prof, n) ==
    IF prof = "calls" THEN [1..n -> Uuids] ELSE {[i \in 1..n |-> i]}

(* random.randint(365, 3650) *)
CreatedDaysDraws(prof) == IF prof = "timeline" THEN {365, 3650} ELSE {365}

(* datetime.now(), in hours: one call reads one hour, the origin of the    *)
(* time scale                                                              *)
NowDraws(prof) == {0}

(* np.random.poisson(encounters_per_patient_avg) *)
PoissonEncounterDraws(prof) ==
    CASE prof = "encounters" -> 0..MaxPoisson
      [] prof = "timeline" -> {1}
      [] OTHER -> {1, 2}

(* random.choices(self.encounter_types, weights), random.randint(0, 730),  *)
(* random.randint(2, 240) (drawn for INPATIENT and EMERGENCY only),        *)
(* random.choice of the diagnosis codes, the two randint of the provider   *)
(* and facility ids, fake.sentence                                         *)
EncounterDraws(prof) ==
    LET types == IF prof \in {"timeline", "labs"}
                 THEN Range(encounter_types) ELSE {"OUTPATIENT"}
        days == IF prof = "timeline" THEN {0, 730} ELSE {0}
        hours == IF prof = "timeline" THEN {2, 240} ELSE {2}
    IN  {[encounter_type |-> t, days_after_creation |-> d, los_hours |-> h,
          diagnosis_code |-> diagnosis_codes[1], provider |-> 1000,
          facility |-> 100, chief_complaint |-> 0] :
            t \in types, d \in days, h \in hours}

(* np.random.poisson(labs_per_encounter_avg) *)
PoissonLabDraws(prof) == IF prof = "labs" THEN 0..MaxLabPoisson ELSE {1}

(* random.sample(population, k): k distinct elements in selection order.   *)
(* Where the sample varies it runs over the k consecutive codes from every *)
(* starting point of the catalog taken as a ring.                          *)
Rotations(population, k) ==
    {[i \in 1..k |-> population[((r + i - 1) % Len(population)) + 1]] :
        r \in 0..(Len(population) - 1)}

random_sample(prof, population, k) ==
    IF prof = "labs" THEN Rotations(population, k)
    ELSE {SubSeq(population, 1, k)}

(* the draws of one turn of the loop over selected_tests: the result type, *)
(* the high/low coin, uniform, random.randint(0, 12), random.randint(1, 48) *)
LabDraws(prof) ==
    LET hours == IF prof = "timeline"
                 THEN {<<0, 1>>, <<12, 48>>} ELSE {<<0, 1>>}
    IN  {[result_type |-> "normal", is_high |-> TRUE, u |-> 1,
          test_hours |-> h[1], result_hours |-> h[2]] : h \in hours}

(***************************************************************************)
(* generate_patients: the rows.                                            *)
(***************************************************************************)
GENDER == Genders[1]

PatientsData(uuids, days, now) ==
    [k \in DOMAIN uuids |->
        PatientRow(uuids[k], 0, GENDER, days[k], now, now)]

(***************************************************************************)
(* generate_encounters: the guard, the clamp and the encounter dict.       *)
(***************************************************************************)
PatientsMissingMut == FALSE

(* if self.patients is None *)
PatientsMissing == patients = None

num_encounters_mut(draw) == draw

(* max(1, min(num_encounters, 20)) *)
num_encounters(draw) == Max2(1, Min2(draw, 20))

EncounterDateMut(patient_created, days_after_creation) ==
    patient_created - 24 * days_after_creation

(* patient_created + timedelta(days=days_after_creation) *)
EncounterDate(patient_created, days_after_creation) ==
    patient_created + 24 * days_after_creation

HasDischargeMut(encounter_type) == encounter_type = "INPATIENT"

(* if encounter_type in ['INPATIENT', 'EMERGENCY'] *)
HasDischarge(encounter_type) == encounter_type \in {"INPATIENT", "EMERGENCY"}

(* the truth value of `discharge_date`: None is false, a datetime is true *)
Truthy(opt) == opt # None

Encounter(patient, d, uuid) ==
    LET encounter_date ==
            EncounterDate(patient.CREATED_AT, d.days_after_creation)
        discharge_date ==
            IF HasDischarge(d.encounter_type)
            THEN Some(encounter_date + d.los_hours)
            ELSE None
    IN  [ENCOUNTER_ID |-> uuid,
         PATIENT_ID |-> patient.PATIENT_ID,
         ENCOUNTER_TYPE |-> d.encounter_type,
         ENCOUNTER_DATE |-> encounter_date,
         PROVIDER_ID |-> d.provider,
         FACILITY_ID |-> d.facility,
         CHIEF_COMPLAINT |-> d.chief_complaint,
         DIAGNOSIS_CODE |-> d.diagnosis_code,
         DISCHARGE_DATE |-> discharge_date,
         STATUS |-> IF Truthy(discharge_date) THEN "DISCHARGED" ELSE "ACTIVE",
         CREATED_AT |-> encounter_date,
         UPDATED_AT |-> IF Truthy(discharge_date) THEN discharge_date[1]
                        ELSE encounter_date,
         DELETED_AT |-> None]

(* the draws of the inner loop for one patient: one per encounter *)
EncounterPlans(prof) ==
    UNION {[1..num_encounters(n) -> EncounterDraws(prof)] :
              n \in PoissonEncounterDraws(prof)}

(* the turns of a nested loop in order: for each outer row k of `order`    *)
(* the turns plans[k], each with the outer row it belongs to               *)
RECURSIVE Flatten(_, _)
Flatten(plans, order) ==
    IF order = <<>> THEN <<>>
    ELSE LET k == Head(order)
         IN  [i \in DOMAIN plans[k] |-> [parent |-> k, d |-> plans[k][i]]]
             \o Flatten(plans, Tail(order))

(***************************************************************************)
(* generate_lab_results: the guard, the skip, the clamp and the lab dict.  *)
(***************************************************************************)
EncountersMissingMut == FALSE

(* if self.encounters is None *)
EncountersMissing == encounters = None

LabEligibleMut(encounter_type) == TRUE

(* encounter['ENCOUNTER_TYPE'] in ['EMERGENCY', 'INPATIENT', 'OUTPATIENT'] *)
LabEligible(encounter_type) ==
    encounter_type \in {"EMERGENCY", "INPATIENT", "OUTPATIENT"}

(* max(1, min(num_labs, 10)) *)
num_labs(draw) == Max2(1, Min2(draw, 10))

(* str(result_value): the text of the number *)
str(x) == [text |-> x]

LabResult(encounter, test_code, d, uuid) ==
    LET test_info == lab_tests[test_code]
        v == ResultValue(test_info, d.result_type, d.is_high, d.u)
        test_date == encounter.ENCOUNTER_DATE + d.test_hours
        result_date == test_date + d.result_hours
    IN  [LAB_RESULT_ID |-> uuid,
         ENCOUNTER_ID |-> encounter.ENCOUNTER_ID,
         PATIENT_ID |-> encounter.PATIENT_ID,
         TEST_CODE |-> test_code,
         RESULT_VALUE |-> str(v.result_value),
         RESULT_UNIT |-> test_info.unit,
         REFERENCE_RANGE |-> <<test_info.normal_min, test_info.normal_max>>,
         ABNORMAL_FLAG |-> v.abnormal_flag,
         TEST_DATE |-> test_date,
         RESULT_DATE |-> result_date,
         PROVIDER_ID |-> encounter.PROVIDER_ID,
         CREATED_AT |-> result_date,
         UPDATED_AT |-> result_date,
         DELETED_AT |-> None]

(* the draws for one encounter that is not skipped: the selected tests,    *)
(* each with the draws of its turn                                         *)
LabPlans(prof) ==
    UNION {
      UNION {
        {[i \in 1..Len(selected_tests) |->
             [test_code |-> selected_tests[i], draw |-> ds[i]]] :
            ds \in [1..Len(selected_tests) -> LabDraws(prof)]} :
        selected_tests \in
            random_sample(prof, TestCodes, Min2(num_labs(n), Len(TestCodes)))} :
      n \in PoissonLabDraws(prof)}

(* the rows of self.encounters the loop does not skip, in order *)
EligibleRows(rows) ==
    SelectSeq([i \in DOMAIN rows |-> i],
              LAMBDA i : LabEligible(rows[i].ENCOUNTER_TYPE))

(***************************************************************************)
(* The three methods as actions.  A call that raises leaves the generator  *)
(* as it was.                                                              *)
(***************************************************************************)
Call(op, outcome) ==
    /\ calls' = calls + 1
    /\ last_call' = [op |-> op, outcome |-> outcome]

(* callable: in any order up to MaxCalls calls, or as generate_all calls *)
MayCall(op) ==
    \/ mode = "generator" /\ calls < MaxCalls
    \/ /\ mode = "generate_all"
       /\ op = CASE calls = 0 -> "generate_patients"
                 [] calls = 1 -> "generate_encounters"
                 [] calls = 2 -> "generate_lab_results"
                 [] OTHER -> "none"

generate_patients ==
    /\ MayCall("generate_patients")
    /\ \E uuids \in UuidDraws(profile, num_patients),
          days \in [1..num_patients -> CreatedDaysDraws(profile)],
          now \in NowDraws(profile) :
            patients' = Some(PatientsData(uuids, days, now))
    /\ Call("generate_patients", "returned")
    /\ UNCHANGED <<mode, runVars, simVars, pctVars, repVars, gen, num_patients,
                   loadVars, labVars, profile, encounters, lab_results,
                   enc_parent, lab_parent>>

generate_encounters ==
    /\ MayCall("generate_encounters")
    /\ IF PatientsMissing
       THEN /\ Call("generate_encounters", "ValueError")
            /\ UNCHANGED dataVars
       ELSE IF patients = None
       THEN \* None.iterrows()
            /\ Call("generate_encounters", "AttributeError")
            /\ UNCHANGED dataVars
       ELSE LET rows == patients[1]
            IN  /\ \E plans \in [DOMAIN rows -> EncounterPlans(profile)] :
                     LET turns == Flatten(plans, [k \in DOMAIN rows |-> k])
                     IN  \E uuids \in UuidDraws(profile, Len(turns)) :
                           /\ encounters' =
                                Some([i \in DOMAIN turns |->
                                       Encounter(rows[turns[i].parent],
                                                 turns[i].d, uuids[i])])
                           /\ enc_parent' =
                                [i \in DOMAIN turns |-> turns[i].parent]
                /\ Call("generate_encounters", "returned")
                /\ UNCHANGED <<patients, lab_results, lab_parent>>
    /\ UNCHANGED <<mode, runVars, simVars, pctVars, repVars, genVars, loadVars,
                   labVars, profile>>

generate_lab_results ==
    /\ MayCall("generate_lab_results")
    /\ IF EncountersMissing
       THEN /\ Call("generate_lab_results", "ValueError")
            /\ UNCHANGED dataVars
       ELSE IF encounters = None
       THEN \* None.iterrows()
            /\ Call("generate_lab_results", "AttributeError")
            /\ UNCHANGED dataVars
       ELSE LET rows == encounters[1]
                eligible == EligibleRows(rows)
            IN  /\ \E plans \in [Range(eligible) -> LabPlans(profile)] :
                     LET turns == Flatten(plans, eligible)
                     IN  \E uuids \in UuidDraws(profile, Len(turns)) :
                           /\ lab_results' =
                                Some([i \in DOMAIN turns |->
                                       LabResult(rows[turns[i].parent],
                                                 turns[i].d.test_code,
                                                 turns[i].d.draw, uuids[i])])
                           /\ lab_parent' =
                                [i \in DOMAIN turns |-> turns[i].parent]
                /\ Call("generate_lab_results", "returned")
                /\ UNCHANGED <<patients, encounters, enc_parent>>
    /\ UNCHANGED <<mode, runVars, simVars, pctVars, repVars, genVars, loadVars,
                   labVars, profile>>

NextGenerator ==
    \/ generate_patients
    \/ generate_encounters
    \/ generate_lab_results

(* __init__(num_patients): nothing generated yet *)
Constructed ==
    /\ RunIdle
    /\ SimIdle
    /\ PctIdle
    /\ RepIdle
    /\ LoadIdle
    /\ LabIdle
    /\ gen = <<>>
    /\ patients = None
    /\ encounters = None
    /\ lab_results = None
    /\ enc_parent = <<>>
    /\ lab_parent = <<>>
    /\ calls = 0
    /\ last_call = [op |-> "__init__", outcome |-> "returned"]

InitGenerator ==
    /\ mode = "generator"
    /\ Constructed
    /\ profile = "calls"
    /\ num_patients = 1

SpecGenerator == InitGenerator /\ [][NextGenerator]_vars

(* generate_all() on a fresh generator *)
InitGenerateAll ==
    /\ mode = "generate_all"
    /\ Constructed
    /\ \/ profile = "timeline" /\ num_patients \in 1..MaxPatients
       \/ profile = "encounters" /\ num_patients \in {1, 2}
       \/ profile = "labs" /\ num_patients = 1

SpecGenerateAll == InitGenerateAll /\ [][NextGenerator]_vars

(***************************************************************************)
(* Claims about calls in any order (specification SpecGenerator).          *)
(***************************************************************************)
Held(dataset) == IF dataset = None THEN {} ELSE Range(dataset[1])

(* C11: after any sequence of calls, every held encounter's PATIENT_ID is  *)
(* the id of a held patient, and every held lab result's ENCOUNTER_ID and  *)
(* PATIENT_ID are those of one held encounter.                             *)
C11_ForeignKeysResolve ==
    /\ \A e \in Held(encounters) :
          \E p \in Held(patients) : p.PATIENT_ID = e.PATIENT_ID
    /\ \A l \in Held(lab_results) :
          \E e \in Held(encounters) :
              /\ e.ENCOUNTER_ID = l.ENCOUNTER_ID
              /\ e.PATIENT_ID = l.PATIENT_ID

(* C13: a call of generate_encounters while no patients are held, and a    *)
(* call of generate_lab_results while no encounters are held, ends in      *)
(* ValueError and leaves the three collections as they were; with the      *)
(* parent collection held the call returns.                                *)
C13_ParentFirst ==
    [][/\ (calls' # calls /\ last_call'.op = "generate_encounters") =>
            IF patients = None
            THEN /\ last_call'.outcome = "ValueError"
                 /\ UNCHANGED <<patients, encounters, lab_results>>
            ELSE /\ last_call'.outcome = "returned"
                 /\ encounters' # None
       /\ (calls' # calls /\ last_call'.op = "generate_lab_results") =>
            IF encounters = None
            THEN /\ last_call'.outcome = "ValueError"
                 /\ UNCHANGED <<patients, encounters, lab_results>>
            ELSE /\ last_call'.outcome = "returned"
                 /\ lab_results' # None]_vars

(* generate_lab_results has failed on a generator that holds patients and  *)
(* no encounters, after generate_encounters had failed on the fresh one    *)
C13_Witness ==
    /\ last_call = [op |-> "generate_lab_results", outcome |-> "ValueError"]
    /\ calls = 3
    /\ patients # None
    /\ encounters = None
    /\ lab_results = None

(* C16: within each collection the identifiers are pairwise distinct       *)
(* (the three kinds of identifier carry different prefixes).               *)
C16_IdentifiersUnique ==
    /\ patients # None =>
          \A i, j \in DOMAIN patients[1] :
              i # j => patients[1][i].PATIENT_ID # patients[1][j].PATIENT_ID
    /\ encounters # None =>
          \A i, j \in DOMAIN encounters[1] :
              i # j => encounters[1][i].ENCOUNTER_ID
                           # encounters[1][j].ENCOUNTER_ID
    /\ lab_results # None =>
          \A i, j \in DOMAIN lab_results[1] :
              i # j => lab_results[1][i].LAB_RESULT_ID
                           # lab_results[1][j].LAB_RESULT_ID

(***************************************************************************)
(* Claims about one pass in hierarchy order (specification                 *)
(* SpecGenerateAll).  The parent of an encounter is the patient row the    *)
(* outer loop was at when the encounter was built, and the parent of a lab *)
(* result the encounter row likewise.                                      *)
(***************************************************************************)
ParentPatient(i) == patients[1][enc_parent[i]]

ParentEncounter(j) == encounters[1][lab_parent[j]]

(* C12: every encounter's date is at or after its patient's CREATED_AT and *)
(* its discharge date, when present, at or after its date; every lab       *)
(* result's test date is at or after its encounter's date and its result   *)
(* date at or after its test date.                                         *)
C12_TimestampsMonotone ==
    /\ encounters # None =>
          \A i \in DOMAIN encounters[1] :
              LET e == encounters[1][i]
              IN  /\ e.PATIENT_ID = ParentPatient(i).PATIENT_ID
                  /\ e.ENCOUNTER_DATE >= ParentPatient(i).CREATED_AT
                  /\ e.DISCHARGE_DATE # None =>
                         e.DISCHARGE_DATE[1] >= e.ENCOUNTER_DATE
    /\ lab_results # None =>
          \A j \in DOMAIN lab_results[1] :
              LET l == lab_results[1][j]
              IN  /\ l.ENCOUNTER_ID = ParentEncounter(j).ENCOUNTER_ID
                  /\ l.TEST_DATE >= ParentEncounter(j).ENCOUNTER_DATE
                  /\ l.RESULT_DATE >= l.TEST_DATE

(* two patients created at different times, the first with an encounter    *)
(* two years after its creation and a lab result 12 and 48 hours on, the   *)
(* second with an encounter on the day of its creation                     *)
C12_Witness ==
    /\ lab_results # None
    /\ Len(patients[1]) = 2
    /\ patients[1][1].CREATED_AT < patients[1][2].CREATED_AT
    /\ Len(encounters[1]) = 2
    /\ encounters[1][1].ENCOUNTER_DATE = patients[1][1].CREATED_AT + 24 * 730
    /\ encounters[1][1].DISCHARGE_DATE # None
    /\ encounters[1][2].ENCOUNTER_DATE = patients[1][2].CREATED_AT
    /\ Len(lab_results[1]) >= 1
    /\ lab_results[1][1].TEST_DATE = encounters[1][1].ENCOUNTER_DATE + 12
    /\ lab_results[1][1].RESULT_DATE = lab_results[1][1].TEST_DATE + 48

EncountersOf(k) == {i \in DOMAIN enc_parent : enc_parent[i] = k}

(* C17: every generated patient has at least 1 and at most 20 encounters.  *)
C17_EncountersPerPatient ==
    encounters # None =>
        \A k \in DOMAIN patients[1] :
            /\ Cardinality(EncountersOf(k)) >= 1
            /\ Cardinality(EncountersOf(k)) <= 20

(* one patient with the least and one with the greatest number *)
C17_Witness ==
    /\ encounters # None
    /\ Len(patients[1]) = 2
    /\ Cardinality(EncountersOf(1)) = 1
    /\ Cardinality(EncountersOf(2)) = 20

LabsOf(i) == {j \in DOMAIN lab_parent : lab_parent[j] = i}

(* C18: every EMERGENCY, INPATIENT or OUTPATIENT encounter has at least 1  *)
(* and at most 10 lab results, with pairwise distinct test codes of the    *)
(* catalog; a TELEHEALTH encounter has none.                               *)
C18_LabsPerEncounter ==
    lab_results # None =>
        \A i \in DOMAIN encounters[1] :
            IF encounters[1][i].ENCOUNTER_TYPE
                   \in {"EMERGENCY", "INPATIENT", "OUTPATIENT"}
            THEN /\ Cardinality(LabsOf(i)) >= 1
                 /\ Cardinality(LabsOf(i)) <= 10
                 /\ \A j \in LabsOf(i) :
                        lab_results[1][j].TEST_CODE \in Range(TestCodes)
                 /\ \A j1, j2 \in LabsOf(i) :
                        j1 # j2 => lab_results[1][j1].TEST_CODE
                                      # lab_results[1][j2].TEST_CODE
            ELSE /\ encounters[1][i].ENCOUNTER_TYPE = "TELEHEALTH"
                 /\ LabsOf(i) = {}

(* a TELEHEALTH encounter followed by an EMERGENCY encounter with a lab    *)
(* result of every test of the catalog                                     *)
C18_Witness ==
    /\ lab_results # None
    /\ Len(encounters[1]) = 2
    /\ encounters[1][1].ENCOUNTER_TYPE = "TELEHEALTH"
    /\ encounters[1][2].ENCOUNTER_TYPE = "EMERGENCY"
    /\ LabsOf(1) = {}
    /\ Cardinality(LabsOf(2)) = Len(TestCodes)

(* C19: an encounter has a discharge time exactly when its type is         *)
(* INPATIENT or EMERGENCY; the discharge time is the encounter time plus a *)
(* whole number of hours from 2 to 240; the STATUS is DISCHARGED when the  *)
(* discharge time is present and ACTIVE when it is not.                    *)
C19_DischargeIffAdmitted ==
    encounters # None =>
        \A i \in DOMAIN encounters[1] :
            LET e == encounters[1][i]
            IN  /\ e.DISCHARGE_DATE # None <=>
                       e.ENCOUNTER_TYPE \in {"INPATIENT", "EMERGENCY"}
                /\ e.DISCHARGE_DATE # None =>
                       /\ e.DISCHARGE_DATE[1] - e.ENCOUNTER_DATE \in 2..240
                       /\ e.STATUS = "DISCHARGED"
                /\ e.DISCHARGE_DATE = None => e.STATUS = "ACTIVE"

(* an EMERGENCY encounter discharged after ten days and an OUTPATIENT      *)
(* encounter                                                               *)
C19_Witness ==
    /\ encounters # None
    /\ Len(encounters[1]) = 2
    /\ encounters[1][1].ENCOUNTER_TYPE = "EMERGENCY"
    /\ encounters[1][1].DISCHARGE_DATE
           = Some(encounters[1][1].ENCOUNTER_DATE + 240)
    /\ encounters[1][1].STATUS = "DISCHARGED"
    /\ encounters[1][2].ENCOUNTER_TYPE = "OUTPATIENT"
    /\ encounters[1][2].STATUS = "ACTIVE"

(***************************************************************************)
(* simulate_concurrent_dashboards under fair scheduling: the calling       *)
(* thread runs whenever it is not blocked (in as_completed, or in the      *)
(* shutdown(wait=True) that ends the with-block), and the pool has         *)
(* num_concurrent threads for at most num_concurrent sessions of an        *)
(* iteration, so every submitted session has a thread of its own that the  *)
(* operating system keeps scheduling.  A step of execute_query is a call   *)
(* of the collaborator that returns or fails.                              *)
(***************************************************************************)
ControllerSteps ==
    \/ Connect
    \/ GetSamplePatientIds
    \/ Submit
    \/ \E s \in 1..(MaxWidth * MaxIterations) : Collect(s)
    \/ Store
    \/ EndIteration
    \/ Unwind

WorkerSteps(s) ==
    \/ \E f \in FaultKinds, e \in ElapsedMs : WorkerExecuteQuery(s, f, e)
    \/ WorkerAppend(s)

SpecFair ==
    /\ InitSim
    /\ [][NextSim]_vars
    /\ WF_vars(ControllerSteps)
    /\ \A s \in 1..(MaxWidth * MaxIterations) : WF_vars(WorkerSteps(s))

(***************************************************************************)
(* Claims about termination (specification SpecFair).                      *)
(***************************************************************************)
(* C21: the call eventually returns, having run all num_iterations         *)
(* iterations.                                                             *)
C21_EventuallyReturns ==
    <>(ctl_pc = "done" /\ iteration = num_iterations)

(* The call always ends, by returning or by propagating an exception:      *)
(* neither a worker nor the controller waits forever.                      *)
EventuallyEnds == <>(ctl_pc \in {"done", "raised"})

(* When no exception leaves a session, the call returns after all          *)
(* iterations.                                                             *)
ReturnsUnlessASessionRaises ==
    ([](\A s \in DOMAIN sess : sess[s].pc # "raised"))
        => <>(ctl_pc = "done" /\ iteration = num_iterations)

(***************************************************************************)
(* run_full_simulation(concurrent_dashboards, dashboard_iterations,        *)
(* operational_iterations) on a fresh simulator: connect, the two load     *)
(* phases and the report inside try, disconnect in finally.                *)
(*                                                                         *)
(* Phase 1 is simulate_concurrent_dashboards as modelled above, for one    *)
(* session per iteration and one iteration over a table of at most one     *)
(* row; its steps run while ctl_pc is between "connect" and "done" or      *)
(* "raised".  `connection` is self.connection: "none" for None, otherwise  *)
(* the state of the connection object the attribute refers to.             *)
(***************************************************************************)
MaxOpIterations == 2

OperationalQueries == <<"ed_census", "high_risk_alerts">>

InitFull ==
    /\ mode = "full"
    /\ PctIdle
    /\ RepIdle
    /\ GenIdle
    /\ LoadIdle
    /\ BatchIdle
    /\ LabIdle
    /\ SimIdle
    /\ \E operational_iterations \in 0..MaxOpIterations :
          run = [pc |-> "connect",
                 operational_iterations |-> operational_iterations,
                 operational_results |-> 0,
                 exc |-> "none",
                 disconnected |-> FALSE]

(***************************************************************************)
(* self.connect(): snowflake.connector.connect returns a connection, which *)
(* is assigned, or raises, and nothing is assigned.  Then the call of      *)
(* simulate_concurrent_dashboards with its parameters.                     *)
(***************************************************************************)
RunConnect(ok) ==
    /\ run.pc = "connect"
    /\ IF ok
       THEN /\ connection' = "open"
            /\ run' = [run EXCEPT !.pc = "phase1"]
            /\ ctl_pc' = "connect"
            /\ \E rows \in 0..1 : num_rows' = rows
       ELSE /\ run' = [run EXCEPT !.pc = "finally", !.exc = "connect"]
            /\ UNCHANGED <<connection, ctl_pc, num_rows>>
    /\ UNCHANGED <<mode, pctVars, repVars, genVars, loadVars, batchVars,
                   labVars, num_concurrent, num_iterations, patient_ids,
                   iteration, sess, collected, cur, all_results,
                   query_results, faults>>

(* simulate_concurrent_dashboards has returned, or an exception left it *)
RunAfterPhase1 ==
    /\ run.pc = "phase1"
    /\ ctl_pc \in {"done", "raised"}
    /\ run' = IF ctl_pc = "done"
              THEN [run EXCEPT !.pc = "phase2"]
              ELSE [run EXCEPT !.pc = "finally", !.exc = "phase1"]
    /\ UNCHANGED <<mode, simVars, pctVars, repVars, genVars, loadVars,
                   batchVars, labVars>>

(***************************************************************************)
(* simulate_operational_queries(num_iterations): per iteration the         *)
(* ed_census and the high_risk_alerts query, each appended to              *)
(* operational_results and to self.query_results; the connection is        *)
(* there, so the method does not connect.  One step is one execute_query   *)
(* call with its appends; an exception of execute_query leaves the method. *)
(***************************************************************************)
RunOperationalQuery(fault, elapsed) ==
    /\ run.pc = "phase2"
    /\ run.operational_results
           < Len(OperationalQueries) * run.operational_iterations
    /\ fault # "none" => faults < MaxFaults
    /\ faults' = IF fault = "none" THEN faults ELSE faults + 1
    /\ LET query_name ==
               OperationalQueries[
                   (run.operational_results % Len(OperationalQueries)) + 1]
           out == execute_query(query_name, 0, fault, elapsed)
       IN  IF out.raised
           THEN /\ run' = [run EXCEPT !.pc = "finally", !.exc = "phase2"]
                /\ UNCHANGED query_results
           ELSE /\ run' = [run EXCEPT !.operational_results = @ + 1]
                /\ query_results' = Append(query_results, out.result)
    /\ UNCHANGED <<mode, pctVars, repVars, genVars, loadVars, batchVars,
                   labVars, num_concurrent, num_iterations, num_rows,
                   connection, ctl_pc, patient_ids, iteration, sess,
                   collected, cur, all_results>>

(* the loop is over: return operational_results *)
RunAfterPhase2 ==
    /\ run.pc = "phase2"
    /\ run.operational_results
           = Len(OperationalQueries) * run.operational_iterations
    /\ run' = [run EXCEPT !.pc = "report"]
    /\ UNCHANGED <<mode, simVars, pctVars, repVars, genVars, loadVars,
                   batchVars, labVars>>

(***************************************************************************)
(* self.generate_performance_report(): the report, and df.to_csv, which    *)
(* writes a file and can fail.                                             *)
(***************************************************************************)
RunReport(csv_ok) ==
    /\ run.pc = "report"
    /\ LET out == generate_performance_report(query_results)
       IN  /\ report' = out
           /\ out.outcome = "no_data" => csv_ok
           /\ run' = IF out.outcome = "raised" \/ ~csv_ok
                     THEN [run EXCEPT !.pc = "finally", !.exc = "report"]
                     ELSE [run EXCEPT !.pc = "finally"]
    /\ UNCHANGED <<mode, simVars, pctVars, genVars, loadVars, batchVars,
                   labVars>>

disconnect_mut(conn) == conn

(* disconnect(): if self.connection: self.connection.close().  The         *)
(* attribute keeps referring to the connection, now closed.                *)
disconnect(conn) == IF conn # "none" THEN "closed" ELSE conn

(***************************************************************************)
(* finally: self.disconnect(); then the function returns, or the pending   *)
(* exception goes on to the caller.                                        *)
(***************************************************************************)
RunFinally ==
    /\ run.pc = "finally"
    /\ connection' = disconnect(connection)
    /\ run' = [run EXCEPT !.disconnected = TRUE,
                          !.pc = IF run.exc = "none" THEN "returned"
                                 ELSE "raised"]
    /\ UNCHANGED <<mode, pctVars, repVars, genVars, loadVars, batchVars,
                   labVars, num_concurrent, num_iterations, num_rows,
                   ctl_pc, patient_ids, iteration, sess, collected, cur,
                   all_results, query_results, faults>>

NextFull ==
    \/ \E ok \in BOOLEAN : RunConnect(ok)
    \/ NextSim
    \/ RunAfterPhase1
    \/ \E fault \in FaultKinds, elapsed \in ElapsedMs :
          RunOperationalQuery(fault, elapsed)
    \/ RunAfterPhase2
    \/ \E csv_ok \in BOOLEAN : RunReport(csv_ok)
    \/ RunFinally

SpecFull == InitFull /\ [][NextFull]_vars

=============================================================================
